---- MODULE Spec2Model ----
(***************************************************************************)
(* Weather Insights dashboard (src/w.py, the CSV variant, with the views   *)
(* of src/weather_insights.py, the SQL variant): schema resolution, type   *)
(* coercion, the filter chain and the aggregation views.                   *)
(*                                                                         *)
(* Text (column headers, raw cell text) is a sequence of one-character     *)
(* strings, so that lower-casing, stripping and substring search are       *)
(* computed character by character as the code does.                       *)
(***************************************************************************)
EXTENDS Integers, Sequences, FiniteSets, TLC

VARIABLES
    pc,           \* position of the script / of the function under study
    raw,          \* the table load_data returned (cached by st.cache_data)
    widgets,      \* the sidebar widgets' current values (the FilterSelection)
    schema,       \* the eight resolved column names (None when not found)
    df,           \* the canonical dataset (after type coercion)
    sidebar,      \* all_locations, dmin, dmax, tmin, tmax
    filtered_df,  \* the filtered dataset
    views,        \* what the run rendered: KPIs and chart tables
    arg,          \* the input of the function under study
    res           \* its result

vars == <<pc, raw, widgets, schema, df, sidebar, filtered_df, views, arg, res>>

-----------------------------------------------------------------------------
(* Text helpers                                                            *)

UpperChars ==
    <<"A","B","C","D","E","F","G","H","I","J","K","L","M",
      "N","O","P","Q","R","S","T","U","V","W","X","Y","Z">>

LowerChars ==
    <<"a","b","c","d","e","f","g","h","i","j","k","l","m",
      "n","o","p","q","r","s","t","u","v","w","x","y","z">>

DigitChars == <<"0","1","2","3","4","5","6","7","8","9">>

Range(s) == { s[i] : i \in DOMAIN s }

UpperSet == Range(UpperChars)

LowerOf == [c \in UpperSet |-> LowerChars[CHOOSE i \in DOMAIN UpperChars : UpperChars[i] = c]]

\* str.lower() on one character
LowerChar(c) == IF c \in UpperSet THEN LowerOf[c] ELSE c

\* str.lower()
Lower(s) == [i \in DOMAIN s |-> LowerChar(s[i])]

\* the characters the class [a-z0-9] accepts
AlnumLowerSet == Range(LowerChars) \cup Range(DigitChars)

IsAlnumLower(c) == c \in AlnumLowerSet

\* " \t\n": the whitespace str.strip() removes (of the characters used here)
IsSpace(c) == c \in {" ", "\t", "\n"}

\* s without the characters outside [a-z0-9]
RECURSIVE StripNonAlnum(_)
StripNonAlnum(s) ==
    IF s = <<>> THEN <<>>
    ELSE IF IsAlnumLower(Head(s)) THEN <<Head(s)>> \o StripNonAlnum(Tail(s))
         ELSE StripNonAlnum(Tail(s))

\* t in s, for two strings
Contains(s, t) ==
    \E i \in 0..(Len(s) - Len(t)) : SubSeq(s, i + 1, i + Len(t)) = t

\* Python's None, for a column name or a list argument
None == <<>>

-----------------------------------------------------------------------------
(* HELPERS (robust column detection), src/w.py 36-63                       *)

\* re.sub(r"[^a-z0-9]", "", s.lower())
_norm(s) == StripNonAlnum(Lower(s))

\* {_norm(c): c for c in cols}: a later column replaces an earlier one that
\* has the same normalized name
RECURSIVE _build_norm_map(_)
_build_norm_map(cols) ==
    IF cols = <<>> THEN [k \in {} |-> None]
    ELSE (_norm(cols[Len(cols)]) :> cols[Len(cols)])
             @@ _build_norm_map(SubSeq(cols, 1, Len(cols) - 1))

\* df.empty: no rows or no columns
IsEmpty(t) == t.rows = <<>> \/ t.cols = <<>>

\* the first of the indexes hits, 0 when there is none: where a for loop
\* over a sequence returns
FirstIndex(hits) ==
    IF hits = {} THEN 0 ELSE CHOOSE i \in hits : \A j \in hits : i <= j

\* any(tok in nc for tok in tokens)
AnyTokenIn(nc, tokens) == \E i \in DOMAIN tokens : Contains(nc, tokens[i])

\* the fuzzy phase looping over the tokens first: the first token that some
\* column contains wins, whatever the column's place in the table
_pick_col_token_first(t, candidates, contains) ==
    LET norm_map == _build_norm_map(t.cols)
        IsHit(cand) == _norm(cand) \in DOMAIN norm_map
        ci == FirstIndex({ i \in DOMAIN candidates : IsHit(candidates[i]) })
        tokens == [i \in DOMAIN contains |-> _norm(contains[i])]
        ColOf(tok) ==
            FirstIndex({ i \in DOMAIN t.cols : Contains(_norm(t.cols[i]), tok) })
        ti == FirstIndex({ i \in DOMAIN tokens : ColOf(tokens[i]) # 0 })
    IN  IF IsEmpty(t) THEN None
        ELSE IF ci # 0 THEN norm_map[_norm(candidates[ci])]
        ELSE IF ti # 0 THEN t.cols[ColOf(tokens[ti])]
        ELSE None

\* the two phases in the wrong order: a substring hit wins over an exact one
_pick_col_fuzzy_first(t, candidates, contains) ==
    LET norm_map == _build_norm_map(t.cols)
        IsHit(cand) == _norm(cand) \in DOMAIN norm_map
        ci == FirstIndex({ i \in DOMAIN candidates : IsHit(candidates[i]) })
        tokens == [i \in DOMAIN contains |-> _norm(contains[i])]
        Fuzzy(c) == AnyTokenIn(_norm(c), tokens)
        fi == FirstIndex({ i \in DOMAIN t.cols : Fuzzy(t.cols[i]) })
    IN  IF IsEmpty(t) THEN None
        ELSE IF fi # 0 THEN t.cols[fi]
        ELSE IF ci # 0 THEN norm_map[_norm(candidates[ci])]
        ELSE None

\* src/w.py 42-63: exact matches in candidate order, then the first column,
\* in table order, whose normalized name contains a token
_pick_col(t, candidates, contains) ==
    LET norm_map == _build_norm_map(t.cols)
        IsHit(cand) == _norm(cand) \in DOMAIN norm_map
        ci == FirstIndex({ i \in DOMAIN candidates : IsHit(candidates[i]) })
        tokens == [i \in DOMAIN contains |-> _norm(contains[i])]
        Fuzzy(c) == AnyTokenIn(_norm(c), tokens)
        fi == FirstIndex({ i \in DOMAIN t.cols : Fuzzy(t.cols[i]) })
    IN  IF IsEmpty(t) THEN None
        ELSE IF ci # 0 THEN norm_map[_norm(candidates[ci])]
        ELSE IF fi # 0 THEN t.cols[fi]
        ELSE None

-----------------------------------------------------------------------------
(* The string literals of DETECT KEY COLUMNS (src/w.py 111-120) and the    *)
(* column headers the tables of this model use                             *)

Words ==
    [date           |-> <<"d","a","t","e">>,
     location       |-> <<"l","o","c","a","t","i","o","n">>,
     city           |-> <<"c","i","t","y">>,
     town           |-> <<"t","o","w","n">>,
     rainfall       |-> <<"r","a","i","n","f","a","l","l">>,
     rain           |-> <<"r","a","i","n">>,
     maxtemp        |-> <<"m","a","x","t","e","m","p">>,
     max_temp       |-> <<"m","a","x","_","t","e","m","p">>,
     tempmax        |-> <<"t","e","m","p","m","a","x">>,
     tmax           |-> <<"t","m","a","x">>,
     temp3pm        |-> <<"t","e","m","p","3","p","m">>,
     temp           |-> <<"t","e","m","p">>,
     humidity3pm    |-> <<"h","u","m","i","d","i","t","y","3","p","m">>,
     humidity_3pm   |-> <<"h","u","m","i","d","i","t","y","_","3","p","m">>,
     humidity       |-> <<"h","u","m","i","d","i","t","y">>,
     windspeed3pm   |-> <<"w","i","n","d","s","p","e","e","d","3","p","m">>,
     wind_speed_3pm |-> <<"w","i","n","d","_","s","p","e","e","d","_","3","p","m">>,
     windspeed      |-> <<"w","i","n","d","s","p","e","e","d">>,
     wind_speed     |-> <<"w","i","n","d","_","s","p","e","e","d">>,
     windgustspeed  |-> <<"w","i","n","d","g","u","s","t","s","p","e","e","d">>,
     wind           |-> <<"w","i","n","d">>,
     raintoday      |-> <<"r","a","i","n","t","o","d","a","y">>,
     rain_today     |-> <<"r","a","i","n","_","t","o","d","a","y">>,
     raintomorrow   |-> <<"r","a","i","n","t","o","m","o","r","r","o","w">>,
     rain_tomorrow  |-> <<"r","a","i","n","_","t","o","m","o","r","r","o","w">>]

Hdr ==
    [Date           |-> <<"D","a","t","e">>,
     Location       |-> <<"L","o","c","a","t","i","o","n">>,
     Rainfall       |-> <<"R","a","i","n","f","a","l","l">>,
     MaxTemp        |-> <<"M","a","x","T","e","m","p">>,
     RainToday      |-> <<"R","a","i","n","T","o","d","a","y">>,
     RainTomorrow   |-> <<"R","a","i","n","T","o","m","o","r","r","o","w">>,
     Rain_Fall      |-> <<"R","a","i","n","_","F","a","l","l">>,
     RAINFALL       |-> <<"R","A","I","N","F","A","L","L">>,
     rain_fall      |-> <<"r","a","i","n"," ","f","a","l","l">>,
     wind_speed_3pm |-> <<"w","i","n","d","_","s","p","e","e","d","_","3","p","m">>,
     WindGustDir    |-> <<"W","i","n","d","G","u","s","t","D","i","r">>,
     CITY           |-> <<"C","I","T","Y">>,
     Temp3pm        |-> <<"T","e","m","p","3","p","m">>,
     Evaporation    |-> <<"E","v","a","p","o","r","a","t","i","o","n">>,
     MinTemp        |-> <<"M","i","n","T","e","m","p">>,
     WindSpeed9am   |-> <<"W","i","n","d","S","p","e","e","d","9","a","m">>,
     Humidity3pm    |-> <<"H","u","m","i","d","i","t","y","3","p","m">>,
     WindSpeed3pm   |-> <<"W","i","n","d","S","p","e","e","d","3","p","m">>]

\* candidates= and contains= of each _pick_col call, src/w.py 111-120
FieldNames ==
    <<"date", "location", "rainfall", "maxtemp",
      "humidity", "windspeed", "raintoday", "raintom">>

EssentialFields == {"date", "location", "rainfall"}

Candidates ==
    [date      |-> <<Words.date>>,
     location  |-> <<Words.location, Words.city, Words.town>>,
     rainfall  |-> <<Words.rainfall>>,
     maxtemp   |-> <<Words.maxtemp, Words.max_temp, Words.tempmax, Words.tmax,
                     Words.temp3pm, Words.temp>>,
     humidity  |-> <<Words.humidity3pm, Words.humidity_3pm, Words.humidity>>,
     windspeed |-> <<Words.windspeed3pm, Words.wind_speed_3pm, Words.windspeed,
                     Words.wind_speed, Words.windgustspeed>>,
     raintoday |-> <<Words.raintoday, Words.rain_today>>,
     raintom   |-> <<Words.raintomorrow, Words.rain_tomorrow>>]

Tokens ==
    [date      |-> <<Words.date>>,
     location  |-> <<Words.location, Words.city, Words.town>>,
     rainfall  |-> <<Words.rain>>,
     maxtemp   |-> <<Words.maxtemp, Words.temp3pm, Words.temp>>,
     humidity  |-> <<Words.humidity>>,
     windspeed |-> <<Words.windspeed, Words.wind>>,
     raintoday |-> <<Words.raintoday>>,
     raintom   |-> <<Words.raintomorrow>>]

-----------------------------------------------------------------------------
(* Tables and cells                                                        *)
(*                                                                         *)
(* A table (DataFrame) is [cols, rows]: the headers in file order and the  *)
(* rows, each a sequence of cells aligned with cols.  A cell is [k, n, s]: *)
(*   "str"      text, s its characters                                     *)
(*   "datestr"  text that pd.to_datetime parses, n the timestamp it means  *)
(*   "num"      a number, n its value in tenths (35.7 is 357)              *)
(*   "ts"       a Timestamp, n in half days: day ordinal * 2 + (noon ? 1)  *)
(*   "nan", "none", "nat"   float NaN, Python None, NaT                    *)

Str(s)     == [k |-> "str",     n |-> 0, s |-> s]
DateStr(n) == [k |-> "datestr", n |-> n, s |-> <<>>]
Num(n)     == [k |-> "num",     n |-> n, s |-> <<>>]
Ts(n)      == [k |-> "ts",      n |-> n, s |-> <<>>]
NaN        == [k |-> "nan",     n |-> 0, s |-> <<>>]
PyNone     == [k |-> "none",    n |-> 0, s |-> <<>>]
NaT        == [k |-> "nat",     n |-> 0, s |-> <<>>]

\* pd.isna
IsNull(c) == c.k \in {"nan", "none", "nat"}

HasCol(t, c) == \E i \in DOMAIN t.cols : t.cols[i] = c

ColIndex(t, c) == CHOOSE i \in DOMAIN t.cols : t.cols[i] = c

\* df[c], one cell per row
Column(t, c) == [r \in DOMAIN t.rows |-> t.rows[r][ColIndex(t, c)]]

\* df[c] = vals
SetColumn(t, c, vals) ==
    [t EXCEPT !.rows =
        [r \in DOMAIN t.rows |-> [t.rows[r] EXCEPT ![ColIndex(t, c)] = vals[r]]]]

\* str.strip()
RECURSIVE LStrip(_)
LStrip(s) == IF s # <<>> /\ IsSpace(Head(s)) THEN LStrip(Tail(s)) ELSE s

RECURSIVE RStrip(_)
RStrip(s) ==
    IF s # <<>> /\ IsSpace(s[Len(s)]) THEN RStrip(SubSeq(s, 1, Len(s) - 1)) ELSE s

Strip(s) == RStrip(LStrip(s))

DigitSet == Range(DigitChars)

IsDigit(c) == c \in DigitSet

DigitValOf == [c \in DigitSet |-> (CHOOSE i \in DOMAIN DigitChars : DigitChars[i] = c) - 1]

DigitVal(c) == DigitValOf[c]

\* the value of a non-empty string of digits
RECURSIVE DigitsValue(_)
DigitsValue(s) ==
    IF Len(s) = 1 THEN DigitVal(s[1])
    ELSE 10 * DigitsValue(SubSeq(s, 1, Len(s) - 1)) + DigitVal(s[Len(s)])

AllDigits(s) == s # <<>> /\ \A i \in DOMAIN s : IsDigit(s[i])

\* str(n) of a natural number
RECURSIVE NatToStr(_)
NatToStr(n) ==
    IF n < 10 THEN <<DigitChars[n + 1]>>
    ELSE NatToStr(n \div 10) \o <<DigitChars[(n % 10) + 1]>>

Abs(n) == IF n < 0 THEN -n ELSE n

\* str() of an int64 cell and of a float64 cell (n in tenths)
IntToStr(n) == (IF n < 0 THEN <<"-">> ELSE <<>>) \o NatToStr(Abs(n) \div 10)

FloatToStr(n) ==
    (IF n < 0 THEN <<"-">> ELSE <<>>)
        \o NatToStr(Abs(n) \div 10) \o <<".">> \o NatToStr(Abs(n) % 10)

\* the number a text denotes for pd.to_numeric, in tenths: digits, with an
\* optional sign and at most one decimal ([-]D+ or [-]D+.D); any other text
\* of this model is not a number
ParseUnsigned(s) ==
    IF AllDigits(s) THEN Num(10 * DigitsValue(s))
    ELSE IF /\ Len(s) >= 3
            /\ s[Len(s) - 1] = "."
            /\ AllDigits(SubSeq(s, 1, Len(s) - 2))
            /\ IsDigit(s[Len(s)])
         THEN Num(10 * DigitsValue(SubSeq(s, 1, Len(s) - 2)) + DigitVal(s[Len(s)]))
         ELSE NaN

ParseNumber(s) ==
    IF s # <<>> /\ Head(s) = "-"
    THEN LET v == ParseUnsigned(Tail(s)) IN IF v.k = "num" THEN Num(-v.n) ELSE NaN
    ELSE ParseUnsigned(s)

\* a column is int64 when every cell is a whole number; one NaN or one
\* fraction makes it float64
IsIntColumn(cells) ==
    \A i \in DOMAIN cells : cells[i].k = "num" /\ cells[i].n % 10 = 0

\* series.astype(str), one cell of a column: str() of the Python value
AsTypeStr(c, cells) ==
    CASE c.k = "str"  -> c.s
      [] c.k = "num"  -> IF IsIntColumn(cells) THEN IntToStr(c.n) ELSE FloatToStr(c.n)
      [] c.k = "nan"  -> <<"n","a","n">>
      [] c.k = "none" -> <<"N","o","n","e">>
      [] c.k = "nat"  -> <<"N","a","T">>

-----------------------------------------------------------------------------
(* Type coercion, src/w.py 65-78 and 138-149                               *)

\* pd.to_numeric(errors="coerce"), one cell
ToNumericCell(c) ==
    CASE c.k = "num"     -> c
      [] c.k = "str"     -> ParseNumber(c.s)
      [] c.k = "datestr" -> NaN
      [] c.k \in {"nan", "none", "nat"} -> NaN

\* pd.to_datetime(errors="coerce"), one cell
ToDatetimeCell(c) ==
    CASE c.k = "datestr" -> Ts(c.n)
      [] c.k = "ts"      -> c
      [] c.k = "str"     -> NaT
      [] c.k \in {"nan", "none", "nat"} -> NaT

\* for c in cols: if c and c in df.columns: df[c] = pd.to_numeric(df[c], ...)
RECURSIVE _ensure_numeric(_, _)
_ensure_numeric(t, cols) ==
    IF cols = <<>> THEN t
    ELSE LET c == Head(cols)
             t1 == IF c # None /\ HasCol(t, c)
                   THEN SetColumn(t, c,
                            [r \in DOMAIN t.rows |-> ToNumericCell(Column(t, c)[r])])
                   ELSE t
         IN  _ensure_numeric(t1, Tail(cols))

S_Yes == <<"Y","e","s">>
S_No  == <<"N","o">>

yes == {<<"y","e","s">>, <<"y">>, <<"t","r","u","e">>, <<"1">>}
no  == {<<"n","o">>, <<"n">>, <<"f","a","l","s","e">>, <<"0">>}

\* the mapping without .str.strip()
_ensure_yes_no_nostrip(series) ==
    [i \in DOMAIN series |->
        LET v == Lower(AsTypeStr(series[i], series))
        IN  IF v \in yes THEN Str(S_Yes) ELSE IF v \in no THEN Str(S_No) ELSE PyNone]

\* series.astype(str).str.strip().str.lower(), then the lambda of line 77
_ensure_yes_no(series) ==
    [i \in DOMAIN series |->
        LET v == Lower(Strip(AsTypeStr(series[i], series)))
        IN  IF v \in yes THEN Str(S_Yes) ELSE IF v \in no THEN Str(S_No) ELSE PyNone]

\* df.dropna(subset=[c])
DropNa(t, c) ==
    LET Keep(row) == ~IsNull(row[ColIndex(t, c)])
    IN  [t EXCEPT !.rows = SelectSeq(t.rows, Keep)]

\* src/w.py 138-149: parse the date and drop the rows without one, make the
\* four measures numeric, normalize the two rain flags
Coerce(t, sc) ==
    LET d1 == SetColumn(t, sc.date,
                  [r \in DOMAIN t.rows |-> ToDatetimeCell(Column(t, sc.date)[r])])
        d2 == DropNa(d1, sc.date)
        d3 == _ensure_numeric(d2, <<sc.rainfall, sc.maxtemp, sc.humidity, sc.windspeed>>)
        d4 == IF sc.raintoday # None
              THEN SetColumn(d3, sc.raintoday, _ensure_yes_no(Column(d3, sc.raintoday)))
              ELSE d3
    IN  IF sc.raintom # None
        THEN SetColumn(d4, sc.raintom, _ensure_yes_no(Column(d4, sc.raintom)))
        ELSE d4

\* src/w.py 111-120: the eight _pick_col calls
DetectColumns(t) ==
    [f \in Range(FieldNames) |-> _pick_col(t, Candidates[f], Tokens[f])]

\* src/w.py 123-126
missing_essentials(sc) == { f \in EssentialFields : sc[f] = None }

-----------------------------------------------------------------------------
(* Calendar: a timestamp counts half days from 1 January of the first year *)
(* of the data; years have 365 days                                        *)

CumDays == <<31, 59, 90, 120, 151, 181, 212, 243, 273, 304, 334, 365>>

\* Timestamp.date(), as a day ordinal, and pd.to_datetime(date): midnight
DateOf(n) == n \div 2

MidnightOf(d) == 2 * d

\* .dt.month
MonthOf(n) ==
    LET doy == DateOf(n) % 365
    IN  CHOOSE m \in 1..12 :
            doy < CumDays[m] /\ \A k \in 1..(m - 1) : doy >= CumDays[k]

\* season_map, src/w.py 218-223
season_map ==
    [Summer |-> {12, 1, 2}, Autumn |-> {3, 4, 5},
     Winter |-> {6, 7, 8},  Spring |-> {9, 10, 11}]

Seasons == {"All", "Summer", "Autumn", "Winter", "Spring"}

-----------------------------------------------------------------------------
(* SIDEBAR FILTERS, src/w.py 156-194                                       *)

SeqMin(S) == CHOOSE x \in S : \A y \in S : x <= y

SeqMax(S) == CHOOSE x \in S : \A y \in S : y <= x

\* int(x) of a float given in tenths: truncation toward zero
IntOf(n) == IF n >= 0 THEN n \div 10 ELSE -((-n) \div 10)

\* the numbers of a column, NaN skipped
Numbers(t, c) ==
    { Column(t, c)[r].n : r \in { q \in DOMAIN t.rows : Column(t, c)[q].k = "num" } }

\* sorted(df[location_col].dropna().astype(str).unique().tolist()), as a set
all_locations(t, sc) ==
    LET col == Column(t, sc.location)
    IN  { AsTypeStr(col[r], col) : r \in { q \in DOMAIN col : ~IsNull(col[q]) } }

\* the slider's generic range when there is no temperature column
TMinGeneric == -10
TMaxGeneric == 50

\* int(nan) raises ValueError: the temperature column holds no number
SidebarRaises(t, sc) == sc.maxtemp # None /\ Numbers(t, sc.maxtemp) = {}

\* tmin, tmax, src/w.py 161-165
SliderLimits(t, sc) ==
    IF sc.maxtemp # None
    THEN <<IntOf(SeqMin(Numbers(t, sc.maxtemp))), IntOf(SeqMax(Numbers(t, sc.maxtemp)))>>
    ELSE <<TMinGeneric, TMaxGeneric>>

\* all_locations, dmin, dmax, tmin, tmax of a non-empty canonical dataset
Sidebar(t, sc) ==
    LET dates == { DateOf(Column(t, sc.date)[r].n) : r \in DOMAIN t.rows }
        lim   == SliderLimits(t, sc)
    IN  [all_locations |-> all_locations(t, sc),
         dmin |-> SeqMin(dates), dmax |-> SeqMax(dates),
         tmin |-> lim[1], tmax |-> lim[2]]

\* the widgets' values on the first run: every default
DefaultWidgets(sb, sc) ==
    [selected_locations   |-> sb.all_locations,
     date_range           |-> <<sb.dmin, sb.dmax>>,
     season               |-> "All",
     rain_today_choice    |-> IF sc.raintoday # None THEN "All" ELSE "N/A",
     rain_tomorrow_choice |-> IF sc.raintom # None THEN "All" ELSE "N/A",
     temp_range           |-> <<sb.tmin, sb.tmax>>]

-----------------------------------------------------------------------------
(* APPLY FILTERS, src/w.py 205-238: one boolean mask per clause            *)

CellOf(t, row, c) == row[ColIndex(t, c)]

\* filtered_df[location_col].astype(str).isin(selected_locations)
LocationMask(t, sc, w, row) ==
    AsTypeStr(CellOf(t, row, sc.location), Column(t, sc.location))
        \in w.selected_locations

\* isinstance(date_range, (list, tuple)) and len(date_range) == 2 and both set
DateClauseActive(w) == Len(w.date_range) = 2

\* (df[date_col] >= start_date) & (df[date_col] <= end_date)
DateMask(t, sc, w, row) ==
    LET ts == CellOf(t, row, sc.date).n
    IN  MidnightOf(w.date_range[1]) <= ts /\ ts <= MidnightOf(w.date_range[2])

\* filtered_df[date_col].dt.month.isin(months)
SeasonMask(t, sc, w, row) ==
    MonthOf(CellOf(t, row, sc.date).n) \in season_map[w.season]

\* the text of a selectbox choice, as the flag column holds it
ChoiceText(choice) == IF choice = "Yes" THEN S_Yes ELSE S_No

\* series == choice: never true of a null
FlagMask(t, col, choice, row) ==
    LET c == CellOf(t, row, col)
    IN  c.k = "str" /\ c.s = ChoiceText(choice)

\* a comparison with NaN is true, as if the null passed the clause
TempMaskNullPasses(t, sc, w, row) ==
    LET c == CellOf(t, row, sc.maxtemp)
    IN  c.k # "num" \/ (10 * w.temp_range[1] <= c.n /\ c.n <= 10 * w.temp_range[2])

\* (df[maxtemp_col] >= temp_range[0]) & (df[maxtemp_col] <= temp_range[1]):
\* every comparison with NaN is false
TempMask(t, sc, w, row) ==
    LET c == CellOf(t, row, sc.maxtemp)
    IN  c.k = "num" /\ 10 * w.temp_range[1] <= c.n /\ c.n <= 10 * w.temp_range[2]

\* which clauses the chain applies for this selection and schema
LocationClauseActive(w) == w.selected_locations # {}

SeasonClauseActive(w) == w.season # "All"

RainTodayClauseActive(sc, w) ==
    sc.raintoday # None /\ w.rain_today_choice \in {"Yes", "No"}

RainTomorrowClauseActive(sc, w) ==
    sc.raintom # None /\ w.rain_tomorrow_choice \in {"Yes", "No"}

TempClauseActive(sc) == sc.maxtemp # None

\* the chain: each active clause keeps the rows its mask accepts
ApplyFilters(t, sc, w) ==
    LET Keep(row) ==
            /\ LocationClauseActive(w) => LocationMask(t, sc, w, row)
            /\ DateClauseActive(w) => DateMask(t, sc, w, row)
            /\ SeasonClauseActive(w) => SeasonMask(t, sc, w, row)
            /\ RainTodayClauseActive(sc, w)
                  => FlagMask(t, sc.raintoday, w.rain_today_choice, row)
            /\ RainTomorrowClauseActive(sc, w)
                  => FlagMask(t, sc.raintom, w.rain_tomorrow_choice, row)
            /\ TempClauseActive(sc) => TempMask(t, sc, w, row)
    IN  [t EXCEPT !.rows = SelectSeq(t.rows, Keep)]

-----------------------------------------------------------------------------
(* Grouping and means                                                      *)

\* the characters of this model in code point order
CodePoints ==
    <<" ", "'", "-", ".">> \o DigitChars \o UpperChars \o <<"_">> \o LowerChars

OrdOf == [c \in Range(CodePoints) |-> CHOOSE i \in DOMAIN CodePoints : CodePoints[i] = c]

Ord(c) == OrdOf[c]

\* a < b for two str values
RECURSIVE StrLess(_, _)
StrLess(a, b) ==
    IF b = <<>> THEN FALSE
    ELSE IF a = <<>> THEN TRUE
    ELSE IF Head(a) = Head(b) THEN StrLess(Tail(a), Tail(b))
    ELSE Ord(Head(a)) < Ord(Head(b))

\* the distinct non-null keys of a column (groupby drops the null keys)
GroupKeys(t, c) ==
    { Column(t, c)[r].s : r \in { q \in DOMAIN t.rows : ~IsNull(Column(t, c)[q]) } }

\* a set of strings as the sequence in ascending order
SortedStrings(S) ==
    [i \in 1..Cardinality(S) |->
        CHOOSE k \in S : Cardinality({ x \in S : StrLess(x, k) }) = i - 1]

\* the row at which a key first appears
FirstRowOf(t, c, k) ==
    CHOOSE r \in DOMAIN t.rows :
        /\ Column(t, c)[r].k = "str" /\ Column(t, c)[r].s = k
        /\ \A q \in 1..(r - 1) : ~(Column(t, c)[q].k = "str" /\ Column(t, c)[q].s = k)

\* the keys in the order of their first row
FirstSeenKeys(t, c) ==
    LET S == GroupKeys(t, c)
    IN  [i \in 1..Cardinality(S) |->
            CHOOSE k \in S :
                Cardinality({ x \in S : FirstRowOf(t, c, x) < FirstRowOf(t, c, k) }) = i - 1]

\* the sum of the numbers of a sequence of cells, and how many they are
RECURSIVE SumCells(_)
SumCells(cells) ==
    IF cells = <<>> THEN 0
    ELSE (IF Head(cells).k = "num" THEN Head(cells).n ELSE 0) + SumCells(Tail(cells))

CountNums(cells) == Cardinality({ i \in DOMAIN cells : cells[i].k = "num" })

\* the groups of groupby(key_col)[val_col] with sort=False: first-seen order
GroupMeansUnsorted(t, key_col, val_col) ==
    LET keys == FirstSeenKeys(t, key_col)
        Of(k) == LET In(row) == CellOf(t, row, key_col).k = "str"
                                    /\ CellOf(t, row, key_col).s = k
                     rows == SelectSeq(t.rows, In)
                 IN  [r \in DOMAIN rows |-> CellOf(t, rows[r], val_col)]
    IN  [i \in DOMAIN keys |->
            [key |-> keys[i], sum |-> SumCells(Of(keys[i])), cnt |-> CountNums(Of(keys[i]))]]

\* df.groupby(key_col)[val_col].mean(): one entry per non-null key, in
\* ascending key order (sort=True); the mean is sum/cnt, NaN when cnt = 0
GroupMeans(t, key_col, val_col) ==
    LET keys == SortedStrings(GroupKeys(t, key_col))
        Of(k) == LET In(row) == CellOf(t, row, key_col).k = "str"
                                    /\ CellOf(t, row, key_col).s = k
                     rows == SelectSeq(t.rows, In)
                 IN  [r \in DOMAIN rows |-> CellOf(t, rows[r], val_col)]
    IN  [i \in DOMAIN keys |->
            [key |-> keys[i], sum |-> SumCells(Of(keys[i])), cnt |-> CountNums(Of(keys[i]))]]

\* a.mean > b.mean and a.mean = b.mean, for two defined means
MeanGreater(a, b) == a.sum * b.cnt > b.sum * a.cnt

MeanEqual(a, b) == a.sum * b.cnt = b.sum * a.cnt

IsNaNMean(g) == g.cnt = 0

-----------------------------------------------------------------------------
(* Series.nlargest(n), keep="first"                                        *)

\* the defined means that come before series[i] under a stable descending
\* sort: the greater ones and the equal ones placed earlier
StableRank(series, i) ==
    Cardinality({ j \in DOMAIN series :
        /\ ~IsNaNMean(series[j])
        /\ \/ MeanGreater(series[j], series[i])
           \/ MeanEqual(series[j], series[i]) /\ j < i })

\* the defined means in descending order, equal means in series order
StableDescending(series) ==
    LET D == { i \in DOMAIN series : ~IsNaNMean(series[i]) }
    IN  [p \in 1..Cardinality(D) |->
            series[CHOOSE i \in D : StableRank(series, i) = p - 1]]

\* the descending orders of the entries at the indices S that a sort which
\* is not stable can produce: equal means in any order
RECURSIVE DescendingOrdersOf(_, _)
DescendingOrdersOf(series, S) ==
    IF S = {} THEN { <<>> }
    ELSE UNION { { <<series[i]>> \o q : q \in DescendingOrdersOf(series, S \ {i}) } :
                   i \in { m \in S : \A j \in S : ~MeanGreater(series[j], series[m]) } }

DescendingOrders(series) ==
    DescendingOrdersOf(series, { i \in DOMAIN series : ~IsNaNMean(series[i]) })

Prefix(q, n) == SubSeq(q, 1, IF Len(q) < n THEN Len(q) ELSE n)

\* the NaN means, in series order
NanTail(series) == SelectSeq(series, IsNaNMean)

\* Series.nlargest(n): the results it can return.  With n >= len(series) it
\* is sort_values(ascending=False).head(n), whose default sort is not stable;
\* otherwise the n largest by a stable sort, then the NaN entries, cut to n
nlargest(series, n) ==
    IF n >= Len(series)
    THEN { Prefix(q \o NanTail(series), n) : q \in DescendingOrders(series) }
    ELSE { Prefix(StableDescending(series) \o NanTail(series), n) }

-----------------------------------------------------------------------------
(* KPIs and ROW 1 chart 1, src/w.py 245-284                                *)

TopN == 5

NoMean == [sum |-> 0, cnt |-> 0]

\* series.mean(): sum and count of the numbers; cnt = 0 is NaN
MeanOf(t, c) ==
    [sum |-> SumCells(Column(t, c)), cnt |-> CountNums(Column(t, c))]

NoKpi ==
    [shown |-> FALSE, avg_temp |-> NoMean, avg_hum |-> NoMean,
     total_rain |-> 0, rainy_days |-> 0]

\* src/w.py 245-260.  Values are in tenths, so round(x, 1) leaves the total
\* as it is; the means are kept as sum and count
Kpis(fd, sc) ==
    IF fd.rows = <<>> THEN NoKpi
    ELSE [shown      |-> TRUE,
          avg_temp   |-> IF sc.maxtemp # None THEN MeanOf(fd, sc.maxtemp) ELSE NoMean,
          avg_hum    |-> IF sc.humidity # None THEN MeanOf(fd, sc.humidity) ELSE NoMean,
          total_rain |-> SumCells(Column(fd, sc.rainfall)),
          rainy_days |-> IF sc.raintoday # None
                         THEN Cardinality({ r \in DOMAIN fd.rows :
                                 LET c == Column(fd, sc.raintoday)[r]
                                 IN  c.k = "str" /\ c.s = S_Yes })
                         ELSE 0]

\* src/w.py 270-284: the tables the top-5 chart can show
Top5Rainiest(fd, sc) ==
    IF fd.rows = <<>> THEN { <<>> }
    ELSE nlargest(GroupMeans(fd, sc.location, sc.rainfall), TopN)

-----------------------------------------------------------------------------
(* ROW 3, the two rain probability charts, src/w.py 361-407.  Numbers are  *)
(* in tenths, so the edge 50 is 500                                        *)

\* bins= and labels= of the two pd.cut calls
HumidityBins   == <<-10, 500, 800, 2000>>
HumidityLabels == <<"Low", "Medium", "High">>
WindBins       == <<-10, 150, 300, 10000000>>
WindLabels     == <<"Calm", "Moderate", "Strong">>

\* pd.cut(x, bins): the index of the interval (bins[i], bins[i+1]], closed
\* on the right, that holds x; 0 (NaN) when no interval does
pd_cut(x, bins) ==
    FirstIndex({ i \in 1..(Len(bins) - 1) : bins[i] < x /\ x <= bins[i + 1] })

\* filtered_df[[a, b]].dropna(): the rows null in neither column
DropNaPair(fd, a, b) ==
    LET Full(row) == ~IsNull(CellOf(fd, row, a)) /\ ~IsNull(CellOf(fd, row, b))
    IN  SelectSeq(fd.rows, Full)

\* the rows of tmp that pd.cut puts in interval i
BucketRows(fd, tmp, col, bins, i) ==
    { r \in DOMAIN tmp : pd_cut(CellOf(fd, tmp[r], col).n, bins) = i }

\* (s == "Yes").mean() * 100 of one group, kept as the count of "Yes" and
\* the count of rows; cnt = 0 is NaN
BucketProbability(fd, tmp, col, out, bins, labels, i) ==
    [bucket |-> labels[i],
     yes    |-> Cardinality({ r \in BucketRows(fd, tmp, col, bins, i) :
                                /\ CellOf(fd, tmp[r], out).k = "str"
                                /\ CellOf(fd, tmp[r], out).s = S_Yes }),
     cnt    |-> Cardinality(BucketRows(fd, tmp, col, bins, i))]

\* a set of indexes as the sequence in ascending order
Ascending(S) ==
    [k \in 1..Cardinality(S) |->
        CHOOSE i \in S : Cardinality({ j \in S : j < i }) = k - 1]

\* tmp.assign(category=cats).groupby(category)[raintom_col].apply(...): one
\* row per category in category order.  pd.cut returns a categorical, and
\* groupby on a categorical keeps the categories without rows (as NaN) when
\* observed is False and leaves them out when it is True; the call does not
\* pass observed, and its default differs between pandas versions
ProbabilityTable(fd, tmp, col, out, bins, labels, observed) ==
    LET shown == { i \in DOMAIN labels :
                     ~observed \/ BucketRows(fd, tmp, col, bins, i) # {} }
    IN  [k \in 1..Cardinality(shown) |->
            BucketProbability(fd, tmp, col, out, bins, labels, Ascending(shown)[k])]

NoChart == [state |-> "none", rows |-> <<>>]

\* src/w.py 363-383 and 387-407: one probability chart
RainProbability(fd, sc, col, bins, labels, observed) ==
    IF fd.rows = <<>> \/ col = None \/ sc.raintom = None
    THEN [state |-> "need_columns", rows |-> <<>>]
    ELSE IF DropNaPair(fd, col, sc.raintom) = <<>>
    THEN [state |-> "not_enough", rows |-> <<>>]
    ELSE [state |-> "drawn",
          rows  |-> ProbabilityTable(fd, DropNaPair(fd, col, sc.raintom),
                                     col, sc.raintom, bins, labels, observed)]

-----------------------------------------------------------------------------
(* ROW 4, the map, src/w.py 415-490                                        *)

MapN == 10

\* location_coords, src/w.py 423-471: name, latitude and longitude, the
\* degrees in units of 0.0001
LocationCoordsItems ==
    { <<<<"S","y","d","n","e","y">>, -338688, 1512093>>,
      <<<<"S","y","d","n","e","y","A","i","r","p","o","r","t">>, -339461, 1511772>>,
      <<<<"M","e","l","b","o","u","r","n","e">>, -378136, 1449631>>,
      <<<<"M","e","l","b","o","u","r","n","e","A","i","r","p","o","r","t">>, -376653, 1448320>>,
      <<<<"B","r","i","s","b","a","n","e">>, -274698, 1530251>>,
      <<<<"P","e","r","t","h">>, -319505, 1158605>>,
      <<<<"A","d","e","l","a","i","d","e">>, -349285, 1386007>>,
      <<<<"D","a","r","w","i","n">>, -124634, 1308456>>,
      <<<<"C","a","i","r","n","s">>, -169203, 1457700>>,
      <<<<"H","o","b","a","r","t">>, -428821, 1473272>>,
      <<<<"C","a","n","b","e","r","r","a">>, -352809, 1491300>>,
      <<<<"G","o","l","d","C","o","a","s","t">>, -280167, 1534000>>,
      <<<<"W","o","l","l","o","n","g","o","n","g">>, -344278, 1508931>>,
      <<<<"C","o","f","f","s","H","a","r","b","o","u","r">>, -302963, 1531157>>,
      <<<<"T","o","w","n","s","v","i","l","l","e">>, -192589, 1468169>>,
      <<<<"A","l","b","u","r","y">>, -360806, 1469156>>,
      <<<<"B","a","l","l","a","r","a","t">>, -375622, 1438503>>,
      <<<<"B","e","n","d","i","g","o">>, -367570, 1442794>>,
      <<<<"N","e","w","c","a","s","t","l","e">>, -329283, 1517817>>,
      <<<<"N","o","r","a","h","H","e","a","d">>, -332810, 1515790>>,
      <<<<"R","i","c","h","m","o","n","d">>, -336000, 1507500>>,
      <<<<"W","a","g","g","a","W","a","g","g","a">>, -351080, 1473700>>,
      <<<<"W","i","l","l","i","a","m","t","o","w","n">>, -327950, 1518400>>,
      <<<<"S","a","l","e">>, -381092, 1470687>>,
      <<<<"M","i","l","d","u","r","a">>, -342050, 1421240>>,
      <<<<"P","o","r","t","l","a","n","d">>, -383420, 1416060>>,
      <<<<"W","a","t","s","o","n","i","a">>, -377167, 1450833>>,
      <<<<"M","o","r","e","e">>, -294653, 1498417>>,
      <<<<"P","e","n","r","i","t","h">>, -337510, 1506900>>,
      <<<<"T","u","g","g","e","r","a","n","o","n","g">>, -354240, 1490880>>,
      <<<<"M","o","u","n","t","G","i","n","i","n","i">>, -355290, 1487720>>,
      <<<<"P","e","a","r","c","e","R","A","A","F">>, -316670, 1160160>>,
      <<<<"P","e","r","t","h","A","i","r","p","o","r","t">>, -319403, 1159672>>,
      <<<<"A","l","b","a","n","y">>, -350228, 1178814>>,
      <<<<"W","i","t","c","h","c","l","i","f","f","e">>, -340126, 1151013>>,
      <<<<"S","a","l","m","o","n","G","u","m","s">>, -329833, 1216333>>,
      <<<<"W","a","l","p","o","l","e">>, -349766, 1167334>>,
      <<<<"L","a","u","n","c","e","s","t","o","n">>, -414332, 1471441>>,
      <<<<"A","l","i","c","e","S","p","r","i","n","g","s">>, -236980, 1338807>>,
      <<<<"K","a","t","h","e","r","i","n","e">>, -144650, 1322630>>,
      <<<<"U","l","u","r","u">>, -253444, 1310369>>,
      <<<<"C","o","b","a","r">>, -314988, 1458440>>,
      <<<<"B","a","d","g","e","r","y","s","C","r","e","e","k">>, -338850, 1506900>>,
      <<<<"N","h","i","l">>, -363333, 1416500>>,
      <<<<"D","a","r","t","m","o","o","r">>, -379170, 1412720>>,
      <<<<"N","u","r","i","o","o","t","p","a">>, -344690, 1389960>>,
      <<<<"W","o","o","m","e","r","a">>, -311980, 1368250>> }

location_coords ==
    [k \in { e[1] : e \in LocationCoordsItems } |->
        LET e == CHOOSE x \in LocationCoordsItems : x[1] = k IN <<e[2], e[3]>>]

\* src/w.py 415-419: the means per location, sorted descending by
\* sort_values (NaN last, the order of equal means left to the sort), cut
\* to the first 10
TopMeans(fd, sc) ==
    { Prefix(q \o NanTail(GroupMeans(fd, sc.location, sc.rainfall)), MapN) :
        q \in DescendingOrders(GroupMeans(fd, sc.location, sc.rainfall)) }

\* an unmatched location kept at the default coordinate (0, 0)
WithCoordsDefault(top) ==
    [i \in DOMAIN top |->
        [key |-> top[i].key, sum |-> top[i].sum, cnt |-> top[i].cnt,
         lat |-> IF top[i].key \in DOMAIN location_coords
                 THEN location_coords[top[i].key][1] ELSE 0,
         lon |-> IF top[i].key \in DOMAIN location_coords
                 THEN location_coords[top[i].key][2] ELSE 0]]

\* src/w.py 474-476: lat and lon looked up by the exact name, and the rows
\* without them dropped
WithCoords(top) ==
    LET Known(g) == g.key \in DOMAIN location_coords
        kept == SelectSeq(top, Known)
    IN  [i \in DOMAIN kept |->
            [key |-> kept[i].key, sum |-> kept[i].sum, cnt |-> kept[i].cnt,
             lat |-> location_coords[kept[i].key][1],
             lon |-> location_coords[kept[i].key][2]]]

\* px.scatter_mapbox(size="avg_rain"): marker.size takes numbers >= 0, and
\* plotly raises ValueError on a NaN or a negative one
ScatterRaises(points) ==
    \E i \in DOMAIN points : points[i].cnt = 0 \/ points[i].sum < 0

\* src/w.py 421-490 on one df_map
MapOf(top) ==
    IF top = <<>> THEN [state |-> "no_data", points |-> <<>>]
    ELSE IF WithCoords(top) = <<>> THEN [state |-> "no_coords", points |-> <<>>]
    ELSE IF ScatterRaises(WithCoords(top))
    THEN [state |-> "raised", points |-> WithCoords(top)]
    ELSE [state |-> "drawn", points |-> WithCoords(top)]

NoMap == [state |-> "none", points |-> <<>>]

\* the maps one run can show
MapView(fd, sc) == { MapOf(top) : top \in TopMeans(fd, sc) }

\* what one run renders: the views of src/w.py 245-490 that the claims
\* are about
Views(fd, sc) ==
    { [kpi  |-> Kpis(fd, sc),
       top5 |-> tbl,
       hum  |-> RainProbability(fd, sc, sc.humidity, HumidityBins, HumidityLabels, o),
       wind |-> RainProbability(fd, sc, sc.windspeed, WindBins, WindLabels, o),
       map  |-> m] :
        tbl \in Top5Rainiest(fd, sc), o \in BOOLEAN, m \in MapView(fd, sc) }

-----------------------------------------------------------------------------
(* The CSV files of the model                                              *)

City ==
    [Perth  |-> <<"P","e","r","t","h">>,
     Albany |-> <<"A","l","b","a","n","y">>,
     Sydney |-> <<"S","y","d","n","e","y">>,
     Cairns |-> <<"C","a","i","r","n","s">>,
     Darwin |-> <<"D","a","r","w","i","n">>,
     Hobart |-> <<"H","o","b","a","r","t">>,
     Moree  |-> <<"M","o","r","e","e">>,
     Brisbane |-> <<"B","r","i","s","b","a","n","e">>,
     Adelaide |-> <<"A","d","e","l","a","i","d","e">>,
     Canberra |-> <<"C","a","n","b","e","r","r","a">>,
     sydney   |-> <<"s","y","d","n","e","y">>,
     Bowral   |-> <<"B","o","w","r","a","l">>,
     OConnor  |-> <<"O","'","C","o","n","n","o","r">>]

\* 10 January 00:00, 1 July 00:00 and 12:00, 5 December 00:00, as date texts
Jan10    == DateStr(18)
Jul1     == DateStr(362)
Jul1Noon == DateStr(363)
Dec5     == DateStr(676)
BadDate  == Str(<<"b","a","d">>)

\* at most this many rows in a file
MaxRows == 2

SeqsUpTo(S, n) == UNION { [1..k -> S] : k \in 0..n }

\* Date, Location, Rainfall, MaxTemp
TempCols == <<Hdr.Date, Hdr.Location, Hdr.Rainfall, Hdr.MaxTemp>>

TempRows ==
    { <<Jan10,    Str(City.Perth),  Num(50),        Num(200)>>,
      <<Jul1,     Str(City.Albany), Num(125),       Num(215)>>,
      <<Jan10,    Str(City.Albany), Str(<<"x">>),   NaN>>,
      <<BadDate,  Str(City.Perth),  Num(30),        Num(200)>>,
      <<Dec5,     NaN,           Num(20),        Num(210)>> }

\* Date, Location, Rainfall, RainToday, RainTomorrow
FlagCols == <<Hdr.Date, Hdr.Location, Hdr.Rainfall, Hdr.RainToday, Hdr.RainTomorrow>>

FlagRows ==
    { <<Jan10,    Str(City.Perth),  Num(50), Str(<<"Y","e","s">>),         Str(<<"N","o">>)>>,
      <<Jul1Noon, Str(City.Albany), Num(0),  Str(<<" ","n","o"," ">>),     Str(<<"Y","E","S">>)>>,
      <<Jan10,    Str(City.Perth),  Num(20), NaN,                          Str(<<"1">>)>>,
      <<Dec5,     Str(City.Albany), Str(<<"1",".","5">>), Str(<<"m","a","y","b","e">>), NaN>> }

\* date, CITY, Rain_Fall: the essentials alone, spelled their own way
BareCols == <<Words.date, Hdr.CITY, Hdr.Rain_Fall>>

BareRows ==
    { <<Jan10,    Str(City.Perth),  Num(50)>>,
      <<Jul1Noon, Str(City.Albany), NaN>>,
      <<BadDate,  Str(City.Albany), Num(10)>> }

TablesOf(cols, rows) ==
    { [err |-> FALSE, cols |-> cols, rows |-> rs] : rs \in SeqsUpTo(rows, MaxRows) }

\* a file pd.read_csv cannot read
Unreadable == [err |-> TRUE, cols |-> <<>>, rows |-> <<>>]

\* the files of the model; the last three lack the date, the rainfall and
\* the location column
CsvFiles ==
    {Unreadable}
        \cup TablesOf(TempCols, TempRows) \cup TablesOf(FlagCols, FlagRows)
        \cup TablesOf(BareCols, BareRows)
        \cup TablesOf(<<Hdr.Location, Hdr.Rainfall>>,
                      { <<Str(City.Perth), Num(50)>> })
        \cup TablesOf(<<Hdr.Date, Hdr.Location, Hdr.MaxTemp>>,
                      { <<Jan10, Str(City.Perth), Num(200)>> })
        \cup TablesOf(<<Hdr.Date, Hdr.Rainfall>>, { <<Jan10, Num(50)>> })

-----------------------------------------------------------------------------
(* The script, src/w.py: one run from the top, and the user's interactions *)

NoTable   == [err |-> FALSE, cols |-> <<>>, rows |-> <<>>]
NoSchema  == [f \in Range(FieldNames) |-> None]
NoDate    == -1
NoSidebar == [all_locations |-> {}, dmin |-> NoDate, dmax |-> NoDate, tmin |-> 0, tmax |-> 0]
NoWidgets ==
    [selected_locations |-> {}, date_range |-> <<>>, season |-> "All",
     rain_today_choice |-> "N/A", rain_tomorrow_choice |-> "N/A", temp_range |-> <<0, 0>>]
NoViews   ==
    [kpi |-> NoKpi, top5 |-> <<>>, hum |-> NoChart, wind |-> NoChart, map |-> NoMap]

\* a selection differs from the defaults in at most this many widgets
MaxChanged == 2

\* the values the date_input can return: the default range, a single day,
\* or one date while the user is still picking the second
DateChoices(sb) ==
    IF sb.dmin = NoDate THEN { <<>> }
    ELSE { <<sb.dmin, sb.dmax>>, <<sb.dmin, sb.dmin>>, <<sb.dmax, sb.dmax>>, <<sb.dmin>> }

\* the slider: the whole range or one of its ends
TempChoices(sb, sc) ==
    IF sc.maxtemp = None THEN { <<sb.tmin, sb.tmax>> }
    ELSE { <<sb.tmin, sb.tmax>>, <<sb.tmin, sb.tmin>>, <<sb.tmax, sb.tmax>> }

RainChoices(col) == IF col # None THEN {"All", "Yes", "No"} ELSE {"N/A"}

WidgetFields ==
    {"selected_locations", "date_range", "season",
     "rain_today_choice", "rain_tomorrow_choice", "temp_range"}

\* the FilterSelections the widgets can hold
WidgetChoices(sb, sc) ==
    LET def == DefaultWidgets(sb, sc)
        all == [selected_locations   : SUBSET sb.all_locations,
                date_range           : DateChoices(sb),
                season               : Seasons,
                rain_today_choice    : RainChoices(sc.raintoday),
                rain_tomorrow_choice : RainChoices(sc.raintom),
                temp_range           : TempChoices(sb, sc)]
    IN  { w \in all :
            Cardinality({ f \in WidgetFields : w[f] # def[f] }) <= MaxChanged }

\* the run stops before anything is drawn
Stop(at, sc) ==
    /\ pc' = at
    /\ schema' = sc
    /\ df' = NoTable
    /\ sidebar' = NoSidebar
    /\ widgets' = NoWidgets
    /\ filtered_df' = NoTable
    /\ views' = NoViews

\* src/w.py 245-490: every view drawn from the filtered dataset
Draw(d, sc, sb, w, fd) ==
    /\ pc' = "rendered"
    /\ schema' = sc
    /\ df' = d
    /\ sidebar' = sb
    /\ widgets' = w
    /\ filtered_df' = fd
    /\ \E v \in Views(fd, sc) : views' = v

\* the filters applied to what the previous run kept
RenderCarryOver(d, sc, sb, w) ==
    Draw(d, sc, sb, w, ApplyFilters(IF pc = "rendered" THEN filtered_df ELSE d, sc, w))

\* src/w.py 205-490: the filters applied, then the views
Render(d, sc, sb, w) == Draw(d, sc, sb, w, ApplyFilters(d, sc, w))

\* the selections one interaction away from w: one widget has changed
OneChange(w, sb, sc) ==
    { v \in WidgetChoices(sb, sc) :
        Cardinality({ f \in WidgetFields : v[f] # w[f] }) = 1 }

\* src/w.py 167-194: the widgets return their defaults on the first run and
\* what the user last set afterwards
ReadWidgets(first, d, sc, sb) ==
    IF first THEN Render(d, sc, sb, DefaultWidgets(sb, sc))
    ELSE \E w \in OneChange(widgets, sb, sc) : Render(d, sc, sb, w)

\* src/w.py 156-165: the sidebar's values.  When no row has a date, dmin and
\* dmax are NaT: with a temperature column int(nan) raises; without one the
\* date_input receives NaT, and the run either fails there or goes on
BuildSidebar(first, d, sc) ==
    IF d.rows = <<>>
    THEN \/ Stop("crashed", sc)
         \/ /\ sc.maxtemp = None
            /\ Render(d, sc, NoSidebar, DefaultWidgets(NoSidebar, sc))
    ELSE IF SidebarRaises(d, sc) THEN Stop("crashed", sc)
    ELSE ReadWidgets(first, d, sc, Sidebar(d, sc))

\* src/w.py 123-149: the essentials are validated, then the types coerced
ValidateAndCoerce(first, t, sc) ==
    IF missing_essentials(sc) # {} THEN Stop("missing_essentials", sc)
    ELSE BuildSidebar(first, Coerce(t, sc), sc)

\* src/w.py 97-490: one run of the script on the cached table
Script(first) ==
    IF raw.err THEN Stop("read_failed", NoSchema)
    ELSE IF IsEmpty(raw) THEN Stop("empty", NoSchema)
    ELSE ValidateAndCoerce(first, raw, DetectColumns(raw))

\* the first run
FirstRun ==
    /\ pc = "init"
    /\ Script(TRUE)
    /\ UNCHANGED <<raw, arg, res>>

\* the user moves a widget: the script runs again from the top
Interact ==
    /\ pc = "rendered"
    /\ Script(FALSE)
    /\ UNCHANGED <<raw, arg, res>>

Init ==
    /\ pc = "init"
    /\ raw \in CsvFiles
    /\ schema = NoSchema
    /\ df = NoTable
    /\ sidebar = NoSidebar
    /\ widgets = NoWidgets
    /\ filtered_df = NoTable
    /\ views = NoViews
    /\ arg = <<>>
    /\ res = <<>>

Next == FirstRun \/ Interact

Spec == Init /\ [][Next]_vars

\* the rows the filter chain kept
Kept == Range(filtered_df.rows)

\* every field of the selection at its "All"/empty setting
AllSelection ==
    /\ widgets.selected_locations \in {{}, sidebar.all_locations}
    /\ widgets.date_range = <<sidebar.dmin, sidebar.dmax>>
    /\ widgets.season = "All"
    /\ widgets.rain_today_choice \in {"All", "N/A"}
    /\ widgets.rain_tomorrow_choice \in {"All", "N/A"}
    /\ widgets.temp_range = <<sidebar.tmin, sidebar.tmax>>

\* C1: with every field of the selection at its "All"/empty setting the
\* filtered dataset is the canonical dataset: no row is excluded
C1_AllSelectionKeepsEveryRow ==
    (pc = "rendered" /\ AllSelection) => filtered_df = df

\* some active clause rejects the row
RejectedByActiveClause(row) ==
    \/ LocationClauseActive(widgets) /\ ~LocationMask(df, schema, widgets, row)
    \/ DateClauseActive(widgets) /\ ~DateMask(df, schema, widgets, row)
    \/ SeasonClauseActive(widgets) /\ ~SeasonMask(df, schema, widgets, row)
    \/ /\ RainTodayClauseActive(schema, widgets)
       /\ ~FlagMask(df, schema.raintoday, widgets.rain_today_choice, row)
    \/ /\ RainTomorrowClauseActive(schema, widgets)
       /\ ~FlagMask(df, schema.raintom, widgets.rain_tomorrow_choice, row)
    \/ TempClauseActive(schema) /\ ~TempMask(df, schema, widgets, row)

\* C2: no kept row is null in the field of an active clause (rain today or
\* rain tomorrow set to Yes or No, the temperature interval when the column
\* is resolved), and a row is excluded only by a clause that is active: a
\* skipped clause excludes nothing, whatever the row holds in its field
C2_NullFailsActiveClauseOnly ==
    pc = "rendered" =>
        /\ \A row \in Kept :
               /\ (schema.raintoday # None /\ widgets.rain_today_choice \in {"Yes", "No"})
                      => ~IsNull(CellOf(df, row, schema.raintoday))
               /\ (schema.raintom # None /\ widgets.rain_tomorrow_choice \in {"Yes", "No"})
                      => ~IsNull(CellOf(df, row, schema.raintom))
               /\ schema.maxtemp # None => ~IsNull(CellOf(df, row, schema.maxtemp))
        /\ \A row \in Range(df.rows) \ Kept : RejectedByActiveClause(row)

\* C2: rain today is "All" and a row null in it is kept, rain tomorrow is
\* "Yes" and a row null in it is excluded
C2_Witness ==
    /\ pc = "rendered"
    /\ schema.raintoday # None /\ schema.raintom # None
    /\ widgets.rain_today_choice = "All"
    /\ widgets.rain_tomorrow_choice = "Yes"
    /\ \E row \in Kept : IsNull(CellOf(df, row, schema.raintoday))
    /\ \E row \in Range(df.rows) \ Kept : IsNull(CellOf(df, row, schema.raintom))

\* C5: an unresolved essential field ends the run before any coercion,
\* filtering or view; with every essential field resolved the run is not
\* fatal and reaches the views
C5_FatalExactlyWhenEssentialMissing ==
    pc \notin {"init", "read_failed", "empty"} =>
        /\ missing_essentials(schema) # {} =>
               /\ pc = "missing_essentials"
               /\ df = NoTable /\ filtered_df = NoTable /\ views = NoViews
        /\ missing_essentials(schema) = {} => pc = "rendered"

\* C6: every row of the canonical dataset has a timestamp and a location,
\* so no later stage removes a row for lacking one
C6_CanonicalRowsHaveDateAndLocation ==
    pc = "rendered" =>
        /\ \A row \in Range(df.rows) :
               /\ CellOf(df, row, schema.date).k = "ts"
               /\ ~IsNull(CellOf(df, row, schema.location))
        /\ \A row \in Range(df.rows) \ Kept :
               ~IsNull(CellOf(df, row, schema.location))

\* the rows of the file whose date parses
RowsWithDate ==
    LET HasDate(row) == CellOf(raw, row, schema.date).k = "datestr"
    IN  SelectSeq(raw.rows, HasDate)

\* the columns coercion makes numeric
NumericCols ==
    { c \in {schema.rainfall, schema.maxtemp, schema.humidity, schema.windspeed} : c # None }

\* C7: the canonical dataset is the file's rows with a parseable date, in
\* order, each measure the number it denotes or null, every column that is
\* neither the date nor a flag otherwise untouched; and with the selection
\* at its "All" settings the total-rainfall KPI is the sum of the rainfall
\* of those rows
C7_CoercionKeepsRowsAndTotal ==
    pc = "rendered" =>
        /\ Len(df.rows) = Len(RowsWithDate)
        /\ \A r \in DOMAIN df.rows : \A i \in DOMAIN df.cols :
               IF df.cols[i] \in NumericCols
               THEN df.rows[r][i] = ToNumericCell(RowsWithDate[r][i])
               ELSE df.cols[i] \notin {schema.date, schema.raintoday, schema.raintom}
                        => df.rows[r][i] = RowsWithDate[r][i]
        /\ AllSelection =>
               /\ views.kpi.shown = (RowsWithDate # <<>>)
               /\ views.kpi.total_rain =
                      SumCells([r \in DOMAIN RowsWithDate |->
                                   ToNumericCell(CellOf(raw, RowsWithDate[r], schema.rainfall))])

\* every view has drawn its result or says that it has nothing to draw
ViewsAnswer ==
    /\ views.kpi.shown \/ filtered_df.rows = <<>>
    /\ views.hum.state \in {"drawn", "need_columns", "not_enough"}
    /\ views.wind.state \in {"drawn", "need_columns", "not_enough"}
    /\ views.map.state \in {"drawn", "no_data", "no_coords"}

\* C15: once the load has succeeded, whatever the selection, every view
\* draws a result or reports that there is no data, and the next
\* interaction is processed as well: the dashboard stays rendered
C15_NoSelectionIsFatal ==
    /\ [](pc = "rendered" => ViewsAnswer)
    /\ [][pc = "rendered" => pc' = "rendered"]_vars

\* C16: after every run the filtered dataset is the latest selection
\* applied to the whole canonical dataset, which is the coerced file and is
\* the same from one interaction to the next
C16_FilteredFromLatestSelection ==
    [][pc' = "rendered" =>
           /\ filtered_df' = ApplyFilters(df', schema', widgets')
           /\ df' = Coerce(raw, DetectColumns(raw))
           /\ pc = "rendered" => df' = df]_vars

\* C16: a selection that differs from the defaults in two widgets, so one
\* that only a second interaction reaches, and that keeps some rows of the
\* canonical dataset and not others
C16_Witness ==
    /\ pc = "rendered"
    /\ Cardinality({ f \in WidgetFields :
                       widgets[f] # DefaultWidgets(sidebar, schema)[f] }) = 2
    /\ filtered_df.rows # <<>>
    /\ Len(filtered_df.rows) < Len(df.rows)

-----------------------------------------------------------------------------
(* _pick_col on its own: the calls of DETECT KEY COLUMNS, and the same     *)
(* calls with the tokens in reverse order, on tables of a few headers      *)

\* every variable the function under study does not use keeps this value
Idle ==
    /\ raw = NoTable
    /\ schema = NoSchema
    /\ df = NoTable
    /\ sidebar = NoSidebar
    /\ widgets = NoWidgets
    /\ filtered_df = NoTable
    /\ views = NoViews

\* at most this many columns in a table given to _pick_col
MaxPickCols == 2

PickHeaders ==
    {Hdr.Rainfall, Hdr.Rain_Fall, Hdr.RAINFALL, Hdr.rain_fall, Hdr.RainToday, Hdr.MaxTemp,
     Hdr.Temp3pm, Hdr.MinTemp, Hdr.WindGustDir, Hdr.WindSpeed9am, Hdr.wind_speed_3pm,
     Hdr.Evaporation}

\* pandas gives the columns of a file distinct names
HeaderLists ==
    { q \in SeqsUpTo(PickHeaders, MaxPickCols) :
          q # <<>> /\ \A i, j \in DOMAIN q : i # j => q[i] # q[j] }

Reverse(s) == [i \in DOMAIN s |-> s[Len(s) + 1 - i]]

PickCalls ==
    { [candidates |-> Candidates[f], contains |-> Tokens[f]] : f \in Range(FieldNames) }
        \cup { [candidates |-> Candidates[f], contains |-> Reverse(Tokens[f])] :
                 f \in Range(FieldNames) }

\* a table of one row with these headers
OneRow(cols) == [err |-> FALSE, cols |-> cols, rows |-> << [i \in DOMAIN cols |-> NaN] >>]

InitPick ==
    /\ pc = "pick"
    /\ arg \in { [t |-> OneRow(q), candidates |-> c.candidates, contains |-> c.contains] :
                   q \in HeaderLists, c \in PickCalls }
    /\ res = <<>>
    /\ Idle

PickCol ==
    /\ pc = "pick"
    /\ res' = _pick_col(arg.t, arg.candidates, arg.contains)
    /\ pc' = "picked"
    /\ UNCHANGED <<raw, widgets, schema, df, sidebar, filtered_df, views, arg>>

NextPick == PickCol

SpecPick == InitPick /\ [][NextPick]_vars

\* the candidates of a call that some column equals after normalization
ExactHits(a) ==
    { i \in DOMAIN a.candidates :
        \E j \in DOMAIN a.t.cols : _norm(a.t.cols[j]) = _norm(a.candidates[i]) }

\* the columns of a call whose normalized name contains a token
FuzzyHits(a) ==
    { j \in DOMAIN a.t.cols :
        \E i \in DOMAIN a.contains : Contains(_norm(a.t.cols[j]), _norm(a.contains[i])) }

C4_FuzzyPhase ==
    pc = "picked" =>
        /\ (ExactHits(arg) = {} /\ FuzzyHits(arg) # {}) =>
               res = arg.t.cols[SeqMin(FuzzyHits(arg))]
        /\ (res = None) <=> (ExactHits(arg) = {} /\ FuzzyHits(arg) = {})

\* C4: "WindGustDir" is picked for the wind speed field: it comes first in
\* the table and contains the second token, though "WindSpeed9am" contains
\* the first
C4_Witness ==
    /\ pc = "picked"
    /\ arg.t.cols = <<Hdr.WindGustDir, Hdr.WindSpeed9am>>
    /\ arg.candidates = Candidates.windspeed
    /\ arg.contains = Tokens.windspeed
    /\ res = Hdr.WindGustDir

-----------------------------------------------------------------------------
(* _ensure_yes_no on its own: a flag column as read_csv can deliver it,    *)
(* text with missing values or numbers with missing values                 *)

\* at most this many cells in a flag column
MaxSeries == 2

FlagTexts ==
    { <<"Y","e","s">>, <<"Y","E","S">>, <<" ","Y","e","s"," ">>, <<"y">>, <<"Y">>,
      <<"t","r","u","e">>, <<"\t","T","r","u","e","\n">>, <<"1">>, <<" ","1">>,
      <<"n","o">>, <<"N","o">>, <<"N","O"," "," ">>, <<"n">>,
      <<"f","a","l","s","e">>, <<"F","A","L","S","E">>, <<"0">>,
      <<"m","a","y","b","e">>, <<>>, <<" ">>, <<"y","e","s","!">>, <<"y"," ","e","s">>,
      <<"1",".","0">>, <<"2">>, <<"n","a","n">> }

\* an object column: text, NaN where the file had nothing, None once mapped
TextCells == { Str(x) : x \in FlagTexts } \cup {NaN, PyNone}

\* a numeric column: int64 when every cell is whole, float64 otherwise
NumCells == {Num(0), Num(10), Num(20), Num(5), Num(-10), NaN}

FlagColumns ==
    { q \in SeqsUpTo(TextCells, MaxSeries) \cup SeqsUpTo(NumCells, MaxSeries) : q # <<>> }

InitYesNo ==
    /\ pc = "map"
    /\ arg \in FlagColumns
    /\ res = <<>>
    /\ Idle

MapYesNo ==
    /\ pc = "map"
    /\ res' = _ensure_yes_no(arg)
    /\ pc' = "mapped"
    /\ UNCHANGED <<raw, widgets, schema, df, sidebar, filtered_df, views, arg>>

NextYesNo == MapYesNo

SpecYesNo == InitYesNo /\ [][NextYesNo]_vars

\* two characters that differ at most in case
SameLetter(a, b) ==
    \/ a = b
    \/ \E i \in DOMAIN UpperChars :
           {a, b} = {UpperChars[i], LowerChars[i]}

\* s reads word, ignoring case and the whitespace around it
Spells(s, word) ==
    \E i \in 1..(Len(s) + 1) :
        /\ i + Len(word) - 1 <= Len(s)
        /\ \A j \in 1..(i - 1) : IsSpace(s[j])
        /\ \A j \in (i + Len(word))..Len(s) : IsSpace(s[j])
        /\ \A j \in DOMAIN word : SameLetter(s[i + j - 1], word[j])

\* the cell is written as one of the words.  A number is written as pandas
\* writes it: 1 in a column of whole numbers, 1.0 in a column that holds a
\* fraction or a missing value
WrittenAs(c, column, words) ==
    \/ c.k = "str" /\ \E w \in words : Spells(c.s, w)
    \/ /\ c.k = "num"
       /\ \A i \in DOMAIN column : column[i].k = "num" /\ column[i].n % 10 = 0
       /\ \/ c.n = 10 /\ <<"1">> \in words
          \/ c.n = 0 /\ <<"0">> \in words

\* C8: every cell maps to "Yes", "No" or null: "Yes" exactly when it is
\* written yes, y, true or 1, "No" exactly when it is written no, n, false
\* or 0 (case and surrounding whitespace ignored), null for anything else
C8_YesNoMapping ==
    pc = "mapped" =>
        /\ DOMAIN res = DOMAIN arg
        /\ \A i \in DOMAIN arg :
               /\ res[i] \in {Str(S_Yes), Str(S_No), PyNone}
               /\ res[i] = Str(S_Yes) <=>
                      WrittenAs(arg[i], arg,
                          {<<"y","e","s">>, <<"y">>, <<"t","r","u","e">>, <<"1">>})
               /\ res[i] = Str(S_No) <=>
                      WrittenAs(arg[i], arg,
                          {<<"n","o">>, <<"n">>, <<"f","a","l","s","e">>, <<"0">>})

\* C8: " Yes " maps to "Yes", "NO  " to "No"
C8_Witness ==
    /\ pc = "mapped"
    /\ arg = <<Str(<<" ","Y","e","s"," ">>), Str(<<"N","O"," "," ">>)>>
    /\ res = <<Str(S_Yes), Str(S_No)>>

-----------------------------------------------------------------------------
(* Type coercion applied twice: the coercion steps of src/w.py 138-149 on  *)
(* a file, then again on their own result                                  *)

\* Date, Location, RainToday: no rainfall column, and the token "rain"
\* resolves the rainfall field to the flag column
CoerceFiles ==
    CsvFiles
        \cup TablesOf(<<Hdr.Date, Hdr.Location, Hdr.RainToday>>,
                      { <<Jan10,    Str(City.Perth),  Num(10)>>,
                        <<Jul1Noon, Str(City.Albany), Num(0)>>,
                        <<Dec5,     Str(City.Albany), NaN>> })

InitCoerce ==
    /\ pc = "loaded"
    /\ raw \in CoerceFiles
    /\ schema = NoSchema
    /\ df = NoTable
    /\ sidebar = NoSidebar
    /\ widgets = NoWidgets
    /\ filtered_df = NoTable
    /\ views = NoViews
    /\ arg = <<>>
    /\ res = NoTable

\* src/w.py 111-149 on the file: the columns resolved, the types coerced
CoerceOnce ==
    /\ pc = "loaded"
    /\ ~raw.err /\ ~IsEmpty(raw)
    /\ missing_essentials(DetectColumns(raw)) = {}
    /\ schema' = DetectColumns(raw)
    /\ df' = Coerce(raw, DetectColumns(raw))
    /\ pc' = "coerced"
    /\ UNCHANGED <<raw, widgets, sidebar, filtered_df, views, arg, res>>

\* src/w.py 138-149 on the canonical dataset
CoerceAgain ==
    /\ pc = "coerced"
    /\ res' = Coerce(df, schema)
    /\ pc' = "recoerced"
    /\ UNCHANGED <<raw, widgets, schema, df, sidebar, filtered_df, views, arg>>

NextCoerce == CoerceOnce \/ CoerceAgain

SpecCoerce == InitCoerce /\ [][NextCoerce]_vars

\* C9: coercing the canonical dataset again changes nothing: no row is
\* dropped and no cell changes
C9_CoercionIdempotent == pc = "recoerced" => res = df

-----------------------------------------------------------------------------
(* The top-5 chart on its own: filtered datasets of up to seven locations  *)
(* that share a few rainfall values, so that means tie                     *)

\* at most this many rows in a filtered dataset
MaxTopRows == 7

\* the locations of the rows, in row order: first met in descending name
\* order, one of them met twice
TopPattern ==
    <<City.Sydney, City.Perth, City.Sydney, City.Moree, City.Hobart, City.Darwin, City.Cairns, City.Albany>>

RainVals == {Num(10), Num(20), NaN}

TopCols == <<Hdr.Date, Hdr.Location, Hdr.Rainfall>>

TopTables ==
    UNION { { [err |-> FALSE, cols |-> TopCols,
               rows |-> [r \in 1..k |->
                           <<Ts(18), Str(TopPattern[((r - 1) % Len(TopPattern)) + 1]), v[r]>>]] :
                v \in [1..k -> RainVals] } : k \in 0..MaxTopRows }

TopSchema ==
    [NoSchema EXCEPT !.date = Hdr.Date, !.location = Hdr.Location, !.rainfall = Hdr.Rainfall]

InitTop5 ==
    /\ pc = "filtered"
    /\ filtered_df \in TopTables
    /\ df = filtered_df
    /\ raw = NoTable
    /\ schema = TopSchema
    /\ sidebar = NoSidebar
    /\ widgets = NoWidgets
    /\ views = NoViews
    /\ arg = <<>>
    /\ res = <<>>

\* src/w.py 270-284
DrawTop5 ==
    /\ pc = "filtered"
    /\ \E tbl \in Top5Rainiest(filtered_df, schema) :
           views' = [NoViews EXCEPT !.top5 = tbl]
    /\ pc' = "charted"
    /\ UNCHANGED <<raw, widgets, schema, df, sidebar, filtered_df, arg, res>>

NextTop5 == DrawTop5

SpecTop5 == InitTop5 /\ [][NextTop5]_vars

\* the locations of the filtered dataset
LocationsOf(t) ==
    { t.rows[r][ColIndex(t, Hdr.Location)].s :
        r \in { q \in DOMAIN t.rows : t.rows[q][ColIndex(t, Hdr.Location)].k = "str" } }

\* the rainfall cells of a location's rows
RainOf(t, loc) ==
    LET At(row) == row[ColIndex(t, Hdr.Location)] = Str(loc)
        rows    == SelectSeq(t.rows, At)
    IN  [r \in DOMAIN rows |-> rows[r][ColIndex(t, Hdr.Rainfall)]]

\* a location's mean rainfall, as the sum and the count of its numbers
MeanRainOf(t, loc) ==
    [key |-> loc, sum |-> SumCells(RainOf(t, loc)), cnt |-> CountNums(RainOf(t, loc))]

\* the first row of a location
FirstMet(t, loc) ==
    CHOOSE r \in DOMAIN t.rows :
        /\ t.rows[r][ColIndex(t, Hdr.Location)] = Str(loc)
        /\ \A q \in 1..(r - 1) : t.rows[q][ColIndex(t, Hdr.Location)] # Str(loc)

\* top holds min(5, number of locations) distinct locations with their
\* means: those with a mean first, in descending order, and no location
\* left out has a larger mean than one shown or a mean where one shown has
\* none
LargestMeansDescending(t, top) ==
    LET L == LocationsOf(t)
        shown == { top[i].key : i \in DOMAIN top }
    IN  /\ Len(top) = IF Cardinality(L) < TopN THEN Cardinality(L) ELSE TopN
        /\ \A i \in DOMAIN top : top[i].key \in L /\ top[i] = MeanRainOf(t, top[i].key)
        /\ \A i, j \in DOMAIN top : i < j =>
               /\ top[i].key # top[j].key
               /\ top[j].cnt > 0 => top[i].cnt > 0
               /\ (top[i].cnt > 0 /\ top[j].cnt > 0) => ~MeanGreater(top[j], top[i])
        /\ \A x \in L \ shown : \A i \in DOMAIN top :
               MeanRainOf(t, x).cnt > 0 =>
                   top[i].cnt > 0 /\ ~MeanGreater(MeanRainOf(t, x), top[i])

\* the pairs <<a, b>> of locations with equal means of which a is shown
\* first, or a is shown and b is left out
TiesShown(t, top) ==
    LET L == LocationsOf(t)
        shown == { top[i].key : i \in DOMAIN top }
    IN  { <<top[q[1]].key, top[q[2]].key>> : q \in
              { p \in (DOMAIN top) \X (DOMAIN top) :
                    /\ p[1] < p[2]
                    /\ top[p[1]].cnt > 0 /\ top[p[2]].cnt > 0
                    /\ MeanEqual(top[p[1]], top[p[2]]) } }
        \cup { <<top[q[1]].key, q[2]>> : q \in
              { p \in (DOMAIN top) \X (L \ shown) :
                    /\ top[p[1]].cnt > 0 /\ MeanRainOf(t, p[2]).cnt > 0
                    /\ MeanEqual(top[p[1]], MeanRainOf(t, p[2])) } }

\* C10, as the code has it: the chart shows the (at most) 5 locations with
\* the largest mean rainfall, in descending order of mean, locations with no
\* rainfall value last; when the filtered dataset has more than 5
\* locations, equal means are selected and ordered by ascending location
\* name (with 5 or fewer their order is not determined)
C10_Top5ByMeanTiesByName ==
    pc = "charted" =>
        /\ LargestMeansDescending(filtered_df, views.top5)
        /\ Cardinality(LocationsOf(filtered_df)) > TopN =>
               \A p \in TiesShown(filtered_df, views.top5) : StrLess(p[1], p[2])

\* C10: six locations with the same mean, Sydney met first: the chart shows
\* the first five by name and leaves Sydney out
C10_Witness ==
    /\ pc = "charted"
    /\ Len(filtered_df.rows) = 7
    /\ \A r \in DOMAIN filtered_df.rows : filtered_df.rows[r][3] = Num(10)
    /\ [i \in DOMAIN views.top5 |-> views.top5[i].key]
           = <<City.Cairns, City.Darwin, City.Hobart, City.Moree, City.Perth>>

\* C10, as stated: the 5 largest means in descending order, equal means
\* selected and ordered by the order in which the locations are first met
C10_TiesByFirstEncounter ==
    pc = "charted" =>
        /\ LargestMeansDescending(filtered_df, views.top5)
        /\ \A p \in TiesShown(filtered_df, views.top5) :
               FirstMet(filtered_df, p[1]) < FirstMet(filtered_df, p[2])

-----------------------------------------------------------------------------
(* The top-5 chart and the map on their own: filtered datasets of up to    *)
(* eleven locations, one of them without coordinates, each with a          *)
(* rainfall value or none                                                  *)

\* at most this many rows in a filtered dataset
MaxMapRows == 11

\* the locations of the rows, in row order; sydney and Bowral are not keys
\* of location_coords
MapPattern ==
    <<City.Sydney, City.Perth, City.sydney, City.Moree, City.Hobart, City.Darwin,
      City.Cairns, City.Albany, City.Brisbane, City.Adelaide, City.Canberra,
      City.Bowral>>

\* the rainfall of the rows that have one, in tenths: descending, rows 3
\* and 4 equal
MapRain == <<120, 110, 100, 100, 90, 80, 70, 60, 50, 40, 30, 20>>

MapTables ==
    UNION { { [err |-> FALSE, cols |-> TopCols,
               rows |-> [r \in 1..k |->
                           <<Ts(18), Str(MapPattern[((r - 1) % Len(MapPattern)) + 1]),
                             IF v[r] THEN Num(MapRain[((r - 1) % Len(MapRain)) + 1])
                             ELSE NaN>>]] :
                v \in [1..k -> BOOLEAN] } : k \in 0..MaxMapRows }

InitMap ==
    /\ pc = "filtered"
    /\ filtered_df \in MapTables
    /\ df = filtered_df
    /\ raw = NoTable
    /\ schema = TopSchema
    /\ sidebar = NoSidebar
    /\ widgets = NoWidgets
    /\ views = NoViews
    /\ arg = <<>>
    /\ res = <<>>

\* src/w.py 270-284 and 415-490
DrawMap ==
    /\ pc = "filtered"
    /\ \E tbl \in Top5Rainiest(filtered_df, schema), m \in MapView(filtered_df, schema) :
           views' = [NoViews EXCEPT !.top5 = tbl, !.map = m]
    /\ pc' = "mapped"
    /\ UNCHANGED <<raw, widgets, schema, df, sidebar, filtered_df, arg, res>>

NextMap == DrawMap

SpecMap == InitMap /\ [][NextMap]_vars

\* the locations of the filtered dataset whose rainfall values are all null
AllNullLocations(t) == { x \in LocationsOf(t) : MeanRainOf(t, x).cnt = 0 }

\* C11: a location whose rainfall values are all null appears neither in the
\* top-5 chart nor on the map, and no entry of either has an undefined mean
C11_NoUndefinedMeanShown ==
    pc = "mapped" =>
        /\ \A i \in DOMAIN views.top5 :
               views.top5[i].key \notin AllNullLocations(filtered_df) /\ views.top5[i].cnt > 0
        /\ \A i \in DOMAIN views.map.points :
               /\ views.map.points[i].key \notin AllNullLocations(filtered_df)
               /\ views.map.points[i].cnt > 0

\* points are the locations of a top 10 by mean of the ranked locations that
\* are keys of location_coords, each at the coordinates the table gives it
GeocodedTopTen(t, points, ranked) ==
    /\ \A i \in DOMAIN points :
           /\ points[i].key \in DOMAIN location_coords
           /\ <<points[i].lat, points[i].lon>> = location_coords[points[i].key]
           /\ \A j \in DOMAIN points : i # j => points[i].key # points[j].key
    /\ \E T \in SUBSET ranked :
           /\ Cardinality(T) = IF Cardinality(ranked) < MapN THEN Cardinality(ranked) ELSE MapN
           /\ \A a \in T, x \in ranked \ T :
                  /\ MeanRainOf(t, x).cnt > 0 => MeanRainOf(t, a).cnt > 0
                  /\ (MeanRainOf(t, x).cnt > 0 /\ MeanRainOf(t, a).cnt > 0)
                         => ~MeanGreater(MeanRainOf(t, x), MeanRainOf(t, a))
           /\ { points[i].key : i \in DOMAIN points } = T \cap DOMAIN location_coords

\* C14: the map dataset is exactly the top-10 locations by mean rainfall
\* (a location without a mean ranking after those that have one) whose name
\* is a key of the coordinate table, letter case included, each at the
\* table's coordinates: an unmatched one is dropped and the 11th does not
\* take its place
C14_MapIsGeocodedTopTen ==
    pc = "mapped" =>
        GeocodedTopTen(filtered_df, views.map.points, LocationsOf(filtered_df))

\* C14: eleven locations that all have a mean; sydney, third by mean, is not
\* a key of the table (Sydney is): the map has 9 points, and Canberra, the
\* 11th, is not one of them
C14_Witness ==
    /\ pc = "mapped"
    /\ Len(filtered_df.rows) = 11
    /\ \A r \in DOMAIN filtered_df.rows : filtered_df.rows[r][3].k = "num"
    /\ views.map.state = "drawn"
    /\ Len(views.map.points) = 9
    /\ \A i \in DOMAIN views.map.points :
           views.map.points[i].key \notin {City.sydney, City.Canberra}

-----------------------------------------------------------------------------
(* The two probability charts on their own: filtered datasets with a       *)
(* humidity, a wind speed and a rain-tomorrow column                       *)

\* at most this many rows in a filtered dataset
MaxProbRows == 3

ProbCols ==
    <<Hdr.Date, Hdr.Location, Hdr.Rainfall, Hdr.Humidity3pm, Hdr.WindSpeed3pm,
      Hdr.RainTomorrow>>

\* humidity, wind speed and rain tomorrow of the rows: values on the edges,
\* inside each interval and outside all of them, and nulls
ProbValues ==
    { <<Num(500),  Num(150), Str(S_Yes)>>,
      <<Num(300),  Num(100), Str(S_No)>>,
      <<Num(650),  Num(200), Str(S_Yes)>>,
      <<Num(800),  Num(300), Str(S_No)>>,
      <<Num(900),  Num(400), Str(S_Yes)>>,
      <<NaN,       Num(100), Str(S_Yes)>>,
      <<Num(300),  NaN,      Str(S_No)>>,
      <<Num(650),  Num(200), PyNone>>,
      <<Num(2500), Num(-10), Str(S_Yes)>>,
      <<Num(0),    Num(0),   Str(S_No)>> }

ProbTables ==
    { [err |-> FALSE, cols |-> ProbCols,
       rows |-> [r \in DOMAIN vs |->
                   <<Ts(18), Str(City.Perth), Num(10)>> \o vs[r]]] :
        vs \in SeqsUpTo(ProbValues, MaxProbRows) }

ProbSchema ==
    [TopSchema EXCEPT !.humidity = Hdr.Humidity3pm, !.windspeed = Hdr.WindSpeed3pm,
                      !.raintom = Hdr.RainTomorrow]

InitProb ==
    /\ pc = "filtered"
    /\ filtered_df \in ProbTables
    /\ df = filtered_df
    /\ raw = NoTable
    /\ schema = ProbSchema
    /\ sidebar = NoSidebar
    /\ widgets = NoWidgets
    /\ views = NoViews
    /\ arg = <<>>
    /\ res = <<>>

\* src/w.py 361-407
DrawProb ==
    /\ pc = "filtered"
    /\ \E o \in BOOLEAN :
           views' = [NoViews EXCEPT
                       !.hum  = RainProbability(filtered_df, schema, schema.humidity,
                                                HumidityBins, HumidityLabels, o),
                       !.wind = RainProbability(filtered_df, schema, schema.windspeed,
                                                WindBins, WindLabels, o)]
    /\ pc' = "plotted"
    /\ UNCHANGED <<raw, widgets, schema, df, sidebar, filtered_df, arg, res>>

NextProb == DrawProb

SpecProb == InitProb /\ [][NextProb]_vars

\* the bucket of a value by the edges lo and hi: below lo the first label,
\* lo to hi the second, above hi the third
BucketOf(x, lo, hi, labels) ==
    IF x < lo THEN labels[1] ELSE IF x <= hi THEN labels[2] ELSE labels[3]

\* the rows of the filtered dataset that are null neither in col nor in
\* the rain-tomorrow column and that the edges put in bucket b
RowsIn(col, lo, hi, labels, b) ==
    { r \in DOMAIN filtered_df.rows :
        /\ ~IsNull(CellOf(filtered_df, filtered_df.rows[r], col))
        /\ ~IsNull(CellOf(filtered_df, filtered_df.rows[r], schema.raintom))
        /\ BucketOf(CellOf(filtered_df, filtered_df.rows[r], col).n, lo, hi, labels) = b }

\* the chart's table gives every bucket that has rows, with the count of
\* its rows and of those with rain tomorrow = "Yes", and no bucket twice
ChartCounts(chart, col, lo, hi, labels) ==
    /\ \A i, j \in DOMAIN chart.rows : i # j => chart.rows[i].bucket # chart.rows[j].bucket
    /\ \A i \in DOMAIN chart.rows :
           /\ chart.rows[i].cnt = Cardinality(RowsIn(col, lo, hi, labels, chart.rows[i].bucket))
           /\ chart.rows[i].yes =
                  Cardinality({ r \in RowsIn(col, lo, hi, labels, chart.rows[i].bucket) :
                      CellOf(filtered_df, filtered_df.rows[r], schema.raintom) = Str(S_Yes) })
    /\ \A k \in DOMAIN labels :
           RowsIn(col, lo, hi, labels, labels[k]) # {} =>
               \E i \in DOMAIN chart.rows : chart.rows[i].bucket = labels[k]

\* C12: rows null in the bucket field or in rain tomorrow are excluded, and
\* every other row is in the one bucket its value has by the edges
\* (humidity: below 50 Low, 50 to 80 Medium, above 80 High; wind: below 15
\* Calm, 15 to 30 Moderate, above 30 Strong); a bucket's probability is
\* 100 * (its rows with rain tomorrow = "Yes") / (its rows)
C12_BucketsByFixedEdges ==
    pc = "plotted" =>
        /\ views.hum.state = "drawn" =>
               ChartCounts(views.hum, schema.humidity, 500, 800, HumidityLabels)
        /\ views.wind.state = "drawn" =>
               ChartCounts(views.wind, schema.windspeed, 150, 300, WindLabels)

\* C13: a bucket without rows is not in the chart's table
C13_NoEmptyBucket ==
    pc = "plotted" =>
        /\ \A i \in DOMAIN views.hum.rows : views.hum.rows[i].cnt > 0
        /\ \A i \in DOMAIN views.wind.rows : views.wind.rows[i].cnt > 0

-----------------------------------------------------------------------------
(* The SQL-backed variant's filter, src/weather_insights.py 82-122, next   *)
(* to the filter chain of src/w.py.  The table weather_rain_au holds the   *)
(* canonical dataset: date is a timestamp, location and the rain flags     *)
(* are text, maxtemp is a number, and a null is NULL                       *)

\* str(v).replace("'", "''")
RECURSIVE DoubleQuotes(_)
DoubleQuotes(v) ==
    IF v = <<>> THEN <<>>
    ELSE (IF Head(v) = "'" THEN <<"'", "'">> ELSE <<Head(v)>>) \o DoubleQuotes(Tail(v))

\* the values joined as they are, no quote doubled
RECURSIVE _escape_list_raw(_)
_escape_list_raw(values) ==
    IF values = <<>> THEN <<>>
    ELSE IF Len(values) = 1 THEN values[1]
    ELSE values[1] \o <<"'", ",", " ", "'">> \o _escape_list_raw(Tail(values))

\* src/weather_insights.py 82-83: "', '".join(...)
RECURSIVE _escape_list(_)
_escape_list(values) ==
    IF values = <<>> THEN <<>>
    ELSE IF Len(values) = 1 THEN DoubleQuotes(values[1])
    ELSE DoubleQuotes(values[1]) \o <<"'", ",", " ", "'">> \o _escape_list(Tail(values))

\* f"{start_date}" of a datetime.date: year, month and day (the model's
\* years have 365 days)
IsoDate(d) ==
    LET m == MonthOf(MidnightOf(d))
    IN  <<d \div 365, m, (d % 365) - (IF m = 1 THEN 0 ELSE CumDays[m - 1]) + 1>>

\* src/weather_insights.py 85-122: the conditions, in the order the
\* function appends them; the WHERE clause is their conjunction
build_where_clause(date_range, locations, rain_today, rain_tomorrow, season, temp_range) ==
    (IF Len(date_range) = 2
     THEN << [kind |-> "date_between",
              lo |-> IsoDate(date_range[1]), hi |-> IsoDate(date_range[2])] >>
     ELSE <<>>)
    \o (IF locations # <<>>
        THEN << [kind |-> "location_in",
                 list |-> <<"'">> \o _escape_list(locations) \o <<"'">>] >>
        ELSE <<>>)
    \o (IF rain_today # "All"
        THEN << [kind |-> "raintoday_eq", text |-> ChoiceText(rain_today)] >>
        ELSE <<>>)
    \o (IF rain_tomorrow # "All"
        THEN << [kind |-> "raintomorrow_eq", text |-> ChoiceText(rain_tomorrow)] >>
        ELSE <<>>)
    \o (IF season # "All"
        THEN << [kind |-> "month_in", months |-> season_map[season]] >>
        ELSE <<>>)
    \o (IF Len(temp_range) = 2
        THEN << [kind |-> "maxtemp_between", lo |-> temp_range[1], hi |-> temp_range[2]] >>
        ELSE <<>>)

\* a list of SQL string literals read back: a quote opens a literal, two
\* quotes inside it are one quote, one quote closes it
RECURSIVE SqlStringList(_, _, _, _)
SqlStringList(s, inside, cur, acc) ==
    IF s = <<>> THEN acc
    ELSE IF ~inside
    THEN SqlStringList(Tail(s), Head(s) = "'", <<>>, acc)
    ELSE IF Head(s) # "'"
    THEN SqlStringList(Tail(s), TRUE, Append(cur, Head(s)), acc)
    ELSE IF Len(s) >= 2 /\ s[2] = "'"
    THEN SqlStringList(Tail(Tail(s)), TRUE, Append(cur, "'"), acc)
    ELSE SqlStringList(Tail(s), FALSE, <<>>, acc \cup {cur})

\* a date literal read back: midnight of that day
SqlTimestamp(iso) ==
    MidnightOf(iso[1] * 365 + (IF iso[2] = 1 THEN 0 ELSE CumDays[iso[2] - 1]) + iso[3] - 1)

\* SQL's three truth values: a comparison with NULL is unknown
SqlTruth(null, holds) == IF null THEN "unknown" ELSE IF holds THEN "true" ELSE "false"

\* one condition on one row of the table
SqlCondition(c, d, sc, row) ==
    CASE c.kind = "date_between" ->
             SqlTruth(IsNull(CellOf(d, row, sc.date)),
                      /\ SqlTimestamp(c.lo) <= CellOf(d, row, sc.date).n
                      /\ CellOf(d, row, sc.date).n <= SqlTimestamp(c.hi))
      [] c.kind = "location_in" ->
             SqlTruth(IsNull(CellOf(d, row, sc.location)),
                      CellOf(d, row, sc.location).s \in SqlStringList(c.list, FALSE, <<>>, {}))
      [] c.kind = "raintoday_eq" ->
             SqlTruth(IsNull(CellOf(d, row, sc.raintoday)),
                      CellOf(d, row, sc.raintoday).s = c.text)
      [] c.kind = "raintomorrow_eq" ->
             SqlTruth(IsNull(CellOf(d, row, sc.raintom)),
                      CellOf(d, row, sc.raintom).s = c.text)
      [] c.kind = "month_in" ->
             SqlTruth(IsNull(CellOf(d, row, sc.date)),
                      MonthOf(CellOf(d, row, sc.date).n) \in c.months)
      [] c.kind = "maxtemp_between" ->
             SqlTruth(IsNull(CellOf(d, row, sc.maxtemp)),
                      /\ 10 * c.lo <= CellOf(d, row, sc.maxtemp).n
                      /\ CellOf(d, row, sc.maxtemp).n <= 10 * c.hi)

\* AND of the conditions: false if one is false, else unknown if one is
\* unknown, else true
SqlAnd(truths) ==
    IF "false" \in truths THEN "false"
    ELSE IF "unknown" \in truths THEN "unknown"
    ELSE "true"

\* SELECT ... FROM weather_rain_au WHERE ...: the rows whose WHERE is true
SqlSelect(d, sc, conditions) ==
    LET Accepted(row) ==
            SqlAnd({ SqlCondition(conditions[i], d, sc, row) : i \in DOMAIN conditions })
                = "true"
    IN  SelectSeq(d.rows, Accepted)

\* at most this many rows in a file
MaxWhereRows == 2

\* Date, Location, Rainfall, MaxTemp, RainToday, RainTomorrow: every column
\* the filters use
WhereCols ==
    <<Hdr.Date, Hdr.Location, Hdr.Rainfall, Hdr.MaxTemp, Hdr.RainToday, Hdr.RainTomorrow>>

WhereRows ==
    { <<Jan10,    Str(City.Perth),   Num(50),  Num(200), Str(S_Yes), Str(S_No)>>,
      <<Jul1Noon, Str(City.OConnor), Num(125), Num(215), Str(S_No),  Str(S_Yes)>>,
      <<Dec5,     NaN,               Num(20),  Num(210), NaN,        Str(S_Yes)>>,
      <<Jul1,     Str(City.Perth),   Num(0),   NaN,      Str(S_Yes), NaN>>,
      <<Jan10,    Str(City.OConnor), Num(30),  Num(200), NaN,        Str(S_No)>> }

\* the files the script loads and renders
WhereFiles ==
    { [err |-> FALSE, cols |-> WhereCols, rows |-> rs] :
        rs \in { q \in SeqsUpTo(WhereRows, MaxWhereRows) :
                   \E r \in DOMAIN q : q[r][4].k = "num" } }

InitWhere ==
    /\ pc = "ready"
    /\ raw \in WhereFiles
    /\ schema = DetectColumns(raw)
    /\ df = Coerce(raw, schema)
    /\ sidebar = Sidebar(df, schema)
    /\ widgets \in WidgetChoices(sidebar, schema)
    /\ filtered_df = NoTable
    /\ views = NoViews
    /\ arg = <<>>
    /\ res = <<>>

\* the same selection through src/w.py 205-238 and through the WHERE clause
\* of src/weather_insights.py 154
SelectBoth ==
    /\ pc = "ready"
    /\ filtered_df' = ApplyFilters(df, schema, widgets)
    /\ res' = SqlSelect(df, schema,
                        build_where_clause(widgets.date_range,
                                           SortedStrings(widgets.selected_locations),
                                           widgets.rain_today_choice,
                                           widgets.rain_tomorrow_choice,
                                           widgets.season, widgets.temp_range))
    /\ pc' = "selected"
    /\ UNCHANGED <<raw, widgets, schema, df, sidebar, views, arg>>

NextWhere == SelectBoth

SpecWhere == InitWhere /\ [][NextWhere]_vars

\* C17: for the same dataset, with every column present, and the same
\* selection, the WHERE clause accepts exactly the rows the filter chain
\* keeps
C17_WhereAcceptsWhatTheChainKeeps ==
    pc = "selected" => res = filtered_df.rows

\* C17: locations selected, among them one with a quote in its name, rain
\* today = "Yes", and a dataset with a row null in rain today: some rows are
\* accepted and some are not
C17_Witness ==
    /\ pc = "selected"
    /\ City.OConnor \in widgets.selected_locations
    /\ widgets.rain_today_choice = "Yes"
    /\ \E r \in DOMAIN df.rows : IsNull(CellOf(df, df.rows[r], schema.raintoday))
    /\ res # <<>>
    /\ Len(res) < Len(df.rows)

====
